---- MODULE Spec2Model ----
(***************************************************************************)
(* DropShelf item store: the DraggableItem widgets held by                 *)
(* DropShelfWindow.scroll_layout, the tab, the undo stack, bulk selection, *)
(* the clipboard monitor and the favorites.json snapshot.                  *)
(***************************************************************************)
EXTENDS Integers, Sequences, FiniteSets, TLC

VARIABLES items, current_tab, undo_stack, selection_mode, monitor_clipboard,
          max_history, clipboard_history, history_file, favorites_file,
          clipboard, pending, last, tog, add_log,
          current_sort, sort_ascending, settings_file,
          favorites_tmp, favorites_bak, history_tmp, running,
          current_filter, search_query,
          fetching, title_queue, pc, server, connections, window_visible

vars == <<items, current_tab, undo_stack, selection_mode, monitor_clipboard,
          max_history, clipboard_history, history_file, favorites_file,
          clipboard, pending, last, tog, add_log,
          current_sort, sort_ascending, settings_file,
          favorites_tmp, favorites_bak, history_tmp, running,
          current_filter, search_query,
          fetching, title_queue, pc, server, connections, window_visible>>

prog == <<items, current_tab, undo_stack, selection_mode, monitor_clipboard,
          max_history, clipboard_history, history_file, favorites_file,
          clipboard, pending, current_sort, sort_ascending, settings_file,
          favorites_tmp, favorites_bak, history_tmp, running,
          current_filter, search_query,
          fetching, title_queue, pc, server, connections, window_visible>>

\* the sort order of the toolbar and settings.json, which the item and history
\* handlers leave alone, and the files next to favorites.json and
\* history.json: only the write specification follows favorites.json.tmp,
\* favorites.json.bak and history.json.tmp; elsewhere every file operation of
\* a save succeeds, the temporary file is gone when the handler returns and
\* nothing reads the backup. running: the process is alive (only the write and
\* start-up specifications end and start it)
\* the type filter and the search box, which only their own handlers change
beside == <<current_filter, search_query>>

\* the processes launched, the QLocalServer listening on APP_ID, the
\* connections waiting at it and the windows on screen: only the launch
\* specification starts a second process
launch == <<pc, server, connections, window_visible>>

\* the title_fetched signals queued for the owner thread, and the launches
apart == <<title_queue, launch>>

side == <<current_sort, sort_ascending, settings_file,
          favorites_tmp, favorites_bak, history_tmp, running, beside, apart>>

(* ------------------------------ bounds --------------------------------- *)
\* longest store the model builds (a new pair is not added beyond it)
MaxItems == 2
\* deepest undo stack the model builds
MaxUndo == 2
\* largest use_count the model counts to
MaxUse == 1
\* clipboard notifications that can be waiting in the event loop
MaxPending == 1
\* add_item calls in the add-only specification
MaxAdds == 3
\* records in an imported file
MaxImport == 2
\* largest history size the settings dialog offers (1000 in the source)
MaxSpin == 2
\* connections that can be waiting at the local server
MaxConnections == 2

(* ------------------------------ values --------------------------------- *)
\* the launches of the program the model follows
Procs == {1, 2}
ItemType == {"text", "url", "file"}
Tabs == {"all", "fav", "history"}

\* a file: whether it exists and the JSON list it holds
NoFile == [exists |-> FALSE, data |-> <<>>]
\* a file that json.load rejects: cut short, or not JSON at all
InvalidJson == [exists |-> TRUE, data |-> <<>>, invalid |-> TRUE]
is_json(f) == "invalid" \notin DOMAIN f
\* default history size (200 in the source)
MAX_HISTORY == 1
NoText == "<none>"
\* date_added=None
NoDate == 0
\* wall-clock values datetime.now().isoformat() can return
Times == {1, 2}

\* str.strip() on the texts of the model
strip(t) == CASE t = " a" -> "a"
              [] t = "A " -> "A"
              [] t = "  " -> ""
              [] OTHER -> t

\* text.startswith(('http://', 'https://', 'www.'))
is_url(t) == t \in {"http://u"}

RemoveAt(s, i) == SubSeq(s, 1, i - 1) \o SubSeq(s, i + 1, Len(s))

Max(a, b) == IF a >= b THEN a ELSE b

(* ---------------------------- view filter ------------------------------ *)
\* the characters of the strings of the model (any other string: one
\* character of its own)
chars(t) == CASE t = "" -> <<>>
              [] t = " a" -> <<" ", "a">>
              [] t = "  " -> <<" ", " ">>
              [] t = "A " -> <<"A", " ">>
              [] t = "ab" -> <<"a", "b">>
              [] t = "/f" -> <<"/", "f">>
              [] t = "http://u" -> <<"h", "t", "t", "p", ":", "/", "/", "u">>
              [] OTHER -> <<t>>

\* str.lower() character by character
lower(cs) == [k \in DOMAIN cs |-> CASE cs[k] = "A" -> "a"
                                     [] cs[k] = "T" -> "t"
                                     [] OTHER -> cs[k]]

\* q in t for two sequences of characters
is_in(q, t) ==
    \E k \in 0..(Len(t) - Len(q)) : SubSeq(t, k + 1, k + Len(q)) = q

\* what _should_show_item answers for the tab, the type filter and the query
shown(item, tab, filter, query) ==
    IF tab = "fav" /\ ~item.is_favorite THEN FALSE
    ELSE IF tab = "all" /\ item.hidden_from_main THEN FALSE
    ELSE IF filter \in {"file", "url", "text"} /\ item.data_type # filter THEN FALSE
    ELSE IF query # ""
              /\ ~is_in(lower(chars(query)), lower(chars(item.content)))
              /\ ~\E k \in DOMAIN item.tags :
                     is_in(lower(chars(query)), lower(chars(item.tags[k])))
         THEN FALSE
    ELSE TRUE

\* _should_show_item with the filter and the query the window holds
_should_show_item(item, tab) == shown(item, tab, current_filter, search_query)

refresh_visibility(its, tab) ==
    [i \in DOMAIN its |-> [its[i] EXCEPT !.visible = _should_show_item(its[i], tab)]]

(* ----------------------------- persistence ----------------------------- *)
\* the dict save_favorites, the undo stack and export build from a widget
snapshot(w) ==
    [type |-> w.data_type, content |-> w.content,
     is_favorite |-> w.is_favorite, hidden_from_main |-> w.hidden_from_main,
     tags |-> w.tags, date_added |-> w.date_added, use_count |-> w.use_count]

\* save_favorites with every file operation succeeding: favorites.json holds
\* the dump of _get_all_items()
save_favorites(its) == [exists |-> TRUE, data |-> [i \in DOMAIN its |-> snapshot(its[i])]]

\* save_history with every file operation succeeding
save_history(file, maxh, hist) == IF maxh = 0 THEN file ELSE [exists |-> TRUE, data |-> hist]

\* save_settings with every file operation succeeding: the keys of
\* settings.json the model follows
save_settings(monitor, maxh) ==
    [exists |-> TRUE, monitor_clipboard |-> monitor, max_history |-> maxh]

\* a deque that makes room by dropping its newest element
deque_append_evicts_newest(d, maxlen, e) ==
    IF Len(d) >= maxlen THEN SubSeq(d, 1, maxlen - 1) \o <<e>>
    ELSE Append(d, e)

\* deque(maxlen=n).append
deque_append(d, maxlen, e) ==
    IF Len(d) >= maxlen THEN SubSeq(d, Len(d) - maxlen + 2, Len(d)) \o <<e>>
    ELSE Append(d, e)

(* ------------------------------- items --------------------------------- *)
\* DraggableItem.__init__
DraggableItem(dtype, content, is_favorite, hidden_from_main, tags, date_added, use_count, now) ==
    [data_type |-> dtype, content |-> content,
     is_favorite |-> is_favorite, hidden_from_main |-> hidden_from_main,
     tags |-> tags,
     date_added |-> IF date_added = NoDate THEN now ELSE date_added,
     use_count |-> use_count, is_selected |-> FALSE, visible |-> TRUE,
     \* the text text_label shows
     text_label |-> content]

\* _fetch_url_title, called by DraggableItem._init_ui for a url: the urls a
\* TitleFetcher thread is running for
_fetch_url_title(fetches, dtype, content) ==
    IF dtype = "url" THEN fetches \cup {content} ELSE fetches

\* index of the first widget add_item's deduplication loop matches, 0 if none
FirstMatch(its, dtype, content) ==
    LET m == {i \in DOMAIN its : its[i].content = content /\ its[i].data_type = dtype}
    IN IF m = {} THEN 0 ELSE CHOOSE i \in m : \A j \in m : i <= j

\* add_item that takes the favorite flag of the call and forgets the flag of
\* the widget it replaces
add_item_not_sticky(st, dtype, content, is_favorite, hidden_from_main, tags, date_added, use_count, now) ==
    LET tab1 == IF ~is_favorite /\ st.current_tab = "fav" THEN "all" ELSE st.current_tab
    IN IF dtype \notin ItemType
       THEN [st EXCEPT !.current_tab = tab1]
       ELSE LET idx == FirstMatch(st.items, dtype, content)
                hid == IF idx # 0 THEN FALSE ELSE hidden_from_main
                rest == IF idx # 0 THEN RemoveAt(st.items, idx) ELSE st.items
                item == DraggableItem(dtype, content, is_favorite, hid, tags, date_added, use_count, now)
                its == refresh_visibility(<<item>> \o rest, tab1)
            IN [st EXCEPT !.items = its, !.current_tab = tab1,
                          !.fetching = _fetch_url_title(@, dtype, content),
                          !.favorites_file = IF ~(is_favorite /\ hid) THEN save_favorites(its)
                                             ELSE st.favorites_file]

\* add_item that moves the matching widget to the front instead of building a
\* new one from the arguments of the call
add_item_keeps_widget(st, dtype, content, is_favorite, hidden_from_main, tags, date_added, use_count, now) ==
    LET tab1 == IF ~is_favorite /\ st.current_tab = "fav" THEN "all" ELSE st.current_tab
    IN IF dtype \notin ItemType
       THEN [st EXCEPT !.current_tab = tab1]
       ELSE LET idx == FirstMatch(st.items, dtype, content)
                fav == IF idx # 0 /\ ~is_favorite /\ st.items[idx].is_favorite
                       THEN TRUE ELSE is_favorite
                hid == IF idx # 0 THEN FALSE ELSE hidden_from_main
                rest == IF idx # 0 THEN RemoveAt(st.items, idx) ELSE st.items
                item == IF idx # 0
                        THEN [st.items[idx] EXCEPT !.is_favorite = fav, !.hidden_from_main = hid,
                                                   !.is_selected = FALSE]
                        ELSE DraggableItem(dtype, content, fav, hid, tags, date_added, use_count, now)
                its == refresh_visibility(<<item>> \o rest, tab1)
            IN [st EXCEPT !.items = its, !.current_tab = tab1,
                          !.fetching = _fetch_url_title(@, dtype, content),
                          !.favorites_file = IF ~(fav /\ hid) THEN save_favorites(its)
                                             ELSE st.favorites_file]

\* add_item that puts the new widget behind the others
add_item_at_end(st, dtype, content, is_favorite, hidden_from_main, tags, date_added, use_count, now) ==
    LET tab1 == IF ~is_favorite /\ st.current_tab = "fav" THEN "all" ELSE st.current_tab
    IN IF dtype \notin ItemType
       THEN [st EXCEPT !.current_tab = tab1]
       ELSE LET idx == FirstMatch(st.items, dtype, content)
                fav == IF idx # 0 /\ ~is_favorite /\ st.items[idx].is_favorite
                       THEN TRUE ELSE is_favorite
                hid == IF idx # 0 THEN FALSE ELSE hidden_from_main
                rest == IF idx # 0 THEN RemoveAt(st.items, idx) ELSE st.items
                item == DraggableItem(dtype, content, fav, hid, tags, date_added, use_count, now)
                its == refresh_visibility(rest \o <<item>>, tab1)
            IN [st EXCEPT !.items = its, !.current_tab = tab1,
                          !.fetching = _fetch_url_title(@, dtype, content),
                          !.favorites_file = IF ~(fav /\ hid) THEN save_favorites(its)
                                             ELSE st.favorites_file]

\* add_item on the window state st (see Window)
add_item(st, dtype, content, is_favorite, hidden_from_main, tags, date_added, use_count, now) ==
    LET tab1 == IF ~is_favorite /\ st.current_tab = "fav" THEN "all" ELSE st.current_tab
    IN IF dtype \notin ItemType
       THEN [st EXCEPT !.current_tab = tab1]    \* ItemType(dtype) raises, logged
       ELSE LET idx == FirstMatch(st.items, dtype, content)
                fav == IF idx # 0 /\ ~is_favorite /\ st.items[idx].is_favorite
                       THEN TRUE ELSE is_favorite
                hid == IF idx # 0 THEN FALSE ELSE hidden_from_main
                rest == IF idx # 0 THEN RemoveAt(st.items, idx) ELSE st.items
                item == DraggableItem(dtype, content, fav, hid, tags, date_added, use_count, now)
                its == refresh_visibility(<<item>> \o rest, tab1)
            IN [st EXCEPT !.items = its, !.current_tab = tab1,
                          !.fetching = _fetch_url_title(@, dtype, content),
                          !.favorites_file = IF ~(fav /\ hid) THEN save_favorites(its)
                                             ELSE st.favorites_file]

\* add_item with the defaults of its signature
add_item_default(st, dtype, content, now) ==
    add_item(st, dtype, content, FALSE, FALSE, <<>>, NoDate, 0, now)

\* remove_item
remove_item(st, i) ==
    LET its == refresh_visibility(RemoveAt(st.items, i), st.current_tab)
    IN [st EXCEPT !.items = its, !.favorites_file = save_favorites(its)]

\* _add_to_history (save_history included)
_add_to_history(st, dtype, content, now) ==
    IF st.max_history = 0 THEN st
    ELSE LET h == deque_append(st.clipboard_history, Max(1, st.max_history),
                               [type |-> dtype, content |-> content, time |-> now])
         IN [st EXCEPT !.clipboard_history = h,
                       !.history_file = save_history(st.history_file, st.max_history, h)]

\* the window state the handlers work on
Window ==
    [items |-> items, current_tab |-> current_tab, favorites_file |-> favorites_file,
     max_history |-> max_history, clipboard_history |-> clipboard_history,
     history_file |-> history_file, fetching |-> fetching]

\* the handler leaves the window in state st
Becomes(st) ==
    /\ items' = st.items
    /\ current_tab' = st.current_tab
    /\ favorites_file' = st.favorites_file
    /\ clipboard_history' = st.clipboard_history
    /\ history_file' = st.history_file
    /\ max_history' = st.max_history
    /\ fetching' = st.fetching

(* --------------------------- clipboard monitor ------------------------- *)
\* what another application can put on the clipboard
TextPayload(t) == [urls |-> <<>>, text |-> t]
UrlsPayload(u) == [urls |-> u, text |-> NoText]
ClipTexts == {"a", " a", "http://u", "  "}
ClipUrls == {<<[local |-> TRUE, path |-> "/f"]>>,
             <<[local |-> FALSE, path |-> "http://u"]>>}
ClipPayloads == {TextPayload(t) : t \in ClipTexts} \cup {UrlsPayload(u) : u \in ClipUrls}

RECURSIVE clipboard_urls(_, _, _, _)
\* the loop over mime.urls() in _on_clipboard_change
clipboard_urls(st, urls, k, now) ==
    IF k > Len(urls) THEN st
    ELSE IF urls[k].local
         THEN LET s1 == IF st.max_history > 0
                        THEN _add_to_history(st, "file", urls[k].path, now) ELSE st
              IN clipboard_urls(add_item_default(s1, "file", urls[k].path, now), urls, k + 1, now)
         ELSE clipboard_urls(st, urls, k + 1, now)

\* _on_clipboard_change that records every text in the history, whatever
\* max_history is
on_clipboard_change_records(st, monitor, mime, now) ==
    IF ~monitor THEN st
    ELSE IF Len(mime.urls) > 0 THEN clipboard_urls(st, mime.urls, 1, now)
    ELSE IF mime.text # NoText
         THEN LET text == strip(mime.text)
              IN IF text # ""
                 THEN LET t == IF is_url(text) THEN "url" ELSE "text"
                          h == deque_append(st.clipboard_history, Max(1, st.max_history),
                                            [type |-> t, content |-> text, time |-> now])
                          s1 == [st EXCEPT !.clipboard_history = h,
                                           !.history_file = [exists |-> TRUE, data |-> h]]
                      IN add_item_default(s1, t, text, now)
                 ELSE st
         ELSE st

\* _on_clipboard_change on the window state, reading the mime data on the clipboard
on_clipboard_change(st, monitor, mime, now) ==
    IF ~monitor THEN st
    ELSE IF Len(mime.urls) > 0 THEN clipboard_urls(st, mime.urls, 1, now)
    ELSE IF mime.text # NoText
         THEN LET text == strip(mime.text)
              IN IF text # ""
                 THEN LET t == IF is_url(text) THEN "url" ELSE "text"
                          s1 == IF st.max_history > 0
                                THEN _add_to_history(st, t, text, now) ELSE st
                      IN add_item_default(s1, t, text, now)
                 ELSE st
         ELSE st

\* the (kind, content) pair _on_clipboard_change hands to add_item for the
\* mime data, <<>> when it adds nothing (one url at most in the model)
ClipPair(mime) ==
    IF Len(mime.urls) > 0
    THEN IF mime.urls[1].local THEN <<"file", mime.urls[1].path>> ELSE <<>>
    ELSE IF mime.text # NoText /\ strip(mime.text) # ""
         THEN <<IF is_url(strip(mime.text)) THEN "url" ELSE "text", strip(mime.text)>>
         ELSE <<>>

(* ------------------------- import file contents ------------------------ *)
Missing == "<missing>"
TagLists == {<<>>, <<"t">>}

ImportRecord(type, content, fav, hid, tags, date, uses) ==
    [type |-> type, content |-> content, is_favorite |-> fav, hidden_from_main |-> hid,
     tags |-> tags, date_added |-> date, use_count |-> uses]

RECURSIVE import_loop(_, _, _, _)
\* the loop of import_items; item['type'] or item['content'] raising KeyError
\* leaves the loop with the records added so far
import_loop(st, file, k, now) ==
    IF k > Len(file) THEN st
    ELSE IF file[k].type = Missing \/ file[k].content = Missing THEN st
    ELSE import_loop(add_item(st, file[k].type, file[k].content, file[k].is_favorite,
                              file[k].hidden_from_main, file[k].tags, file[k].date_added,
                              file[k].use_count, now),
                     file, k + 1, now)

RECURSIVE undo_loop(_, _, _, _)
\* the loop of undo_delete over the popped batch
undo_loop(st, batch, k, now) ==
    IF k > Len(batch) THEN st
    ELSE undo_loop(add_item(st, batch[k].type, batch[k].content, batch[k].is_favorite,
                            batch[k].hidden_from_main, batch[k].tags, batch[k].date_added,
                            batch[k].use_count, now),
                   batch, k + 1, now)

(* ------------------------------- ghosts -------------------------------- *)
NoTog == [phase |-> 0, i |-> 0, pre |-> <<>>]

\* the operation that made the last step and the widget it was invoked on
\* (for undo: the depth of the undo stack it found)
Note(op, i) == last' = [op |-> op, i |-> i]

\* the user can act on widget i: it is shown and the item list is on screen
Clickable(i) == i \in DOMAIN items /\ items[i].visible /\ current_tab # "history"

(* ------------------------------- actions ------------------------------- *)
\* another application changes the clipboard: dataChanged is queued
ExternalCopy(p) ==
    /\ pending < MaxPending
    /\ clipboard' = p
    /\ pending' = pending + 1
    /\ UNCHANGED <<items, current_tab, undo_stack, selection_mode, monitor_clipboard,
                   max_history, clipboard_history, history_file, favorites_file>>
    /\ UNCHANGED side
    /\ UNCHANGED fetching
    /\ Note("copy", 0)

\* _on_clipboard_change
OnClipboardChange(now) ==
    /\ pending > 0
    /\ LET st == on_clipboard_change(Window, monitor_clipboard, clipboard, now)
       IN Len(st.items) <= MaxItems /\ Becomes(st)
    /\ pending' = pending - 1
    /\ UNCHANGED <<undo_stack, selection_mode, monitor_clipboard, clipboard>>
    /\ UNCHANGED side
    \* noted with the length of the history log the handler found
    /\ Note("clip", Len(clipboard_history))

\* a record of the file lacks 'type' or 'content': the loop of import_items
\* raises KeyError when it reaches it
import_fails(file) ==
    \E k \in DOMAIN file : file[k].type = Missing \/ file[k].content = Missing

\* import_items with a file chosen
ImportItems(file, now) ==
    /\ LET st == import_loop(Window, file, 1, now)
       IN Len(st.items) <= MaxItems /\ Becomes(st)
    /\ UNCHANGED <<undo_stack, selection_mode, monitor_clipboard, clipboard, pending>>
    /\ UNCHANGED side
    \* noted with 1 when the import ends with "Import failed"
    /\ Note("import", IF import_fails(file) THEN 1 ELSE 0)

\* switch_tab
SwitchTab(tab) ==
    /\ tab = "history" => max_history > 0
    /\ current_tab' = tab
    /\ items' = IF tab = "history" THEN items ELSE refresh_visibility(items, tab)
    /\ UNCHANGED <<undo_stack, selection_mode, monitor_clipboard, max_history,
                   clipboard_history, history_file, favorites_file, clipboard, pending>>
    /\ UNCHANGED side
    /\ UNCHANGED fetching
    /\ Note("tab", 0)

\* toggle_favorite that only ever sets the star
toggle_favorite_sets(st, i) ==
    LET its == [st.items EXCEPT ![i].is_favorite = TRUE]
    IN [st EXCEPT !.favorites_file = save_favorites(its),
                  !.items = refresh_visibility(its, st.current_tab)]

\* DraggableItem.toggle_favorite on widget i
toggle_favorite(st, i) ==
    LET w == st.items[i]
        fav == ~w.is_favorite
        w1 == [w EXCEPT !.is_favorite = fav,
                        !.hidden_from_main = IF ~fav THEN FALSE ELSE w.hidden_from_main]
        its == [st.items EXCEPT ![i] = w1]
    IN [st EXCEPT !.favorites_file = save_favorites(its),
                  !.items = refresh_visibility(its, st.current_tab)]

ToggleFavorite(i) ==
    /\ Clickable(i)
    /\ Becomes(toggle_favorite(Window, i))
    /\ UNCHANGED <<undo_stack, selection_mode, monitor_clipboard, clipboard, pending>>
    /\ UNCHANGED side
    /\ Note("toggle", i)

\* what the user can type into the edit dialog of a text item
EditTexts == {"a", " a"}

\* DraggableItem._edit_item with the dialog accepted
_edit_item(st, i, new_content, new_tags) ==
    LET w == st.items[i]
        w1 == [w EXCEPT !.content = IF w.data_type = "text" THEN new_content ELSE w.content,
                        !.text_label = IF w.data_type = "text" THEN new_content ELSE @,
                        !.tags = new_tags]
        its == [st.items EXCEPT ![i] = w1]
    IN [st EXCEPT !.items = its, !.favorites_file = save_favorites(its)]

EditItem(i, new_content, new_tags) ==
    /\ Clickable(i)
    /\ Becomes(_edit_item(Window, i, new_content, new_tags))
    /\ UNCHANGED <<undo_stack, selection_mode, monitor_clipboard, clipboard, pending>>
    /\ UNCHANGED side
    /\ Note("edit", i)

\* DraggableItem._handle_open up to the open/copy itself
_handle_open(st, i) ==
    LET its == [st.items EXCEPT ![i].use_count = @ + 1]
    IN [st EXCEPT !.items = its, !.favorites_file = save_favorites(its)]

HandleOpen(i) ==
    /\ Clickable(i)
    /\ items[i].use_count < MaxUse
    /\ Becomes(_handle_open(Window, i))
    /\ IF items[i].data_type = "text"
       THEN \* QApplication.clipboard().setText(content): dataChanged is queued
            /\ pending < MaxPending
            /\ clipboard' = TextPayload(items[i].content)
            /\ pending' = pending + 1
       ELSE UNCHANGED <<clipboard, pending>>
    /\ UNCHANGED <<undo_stack, selection_mode, monitor_clipboard>>
    /\ UNCHANGED side
    /\ Note("open", i)

\* handle_item_deletion_request without the Favorites-tab branch
handle_item_deletion_request_any_tab(st, stack, i) ==
    LET w == st.items[i]
    IN IF w.is_favorite
       THEN LET its == [st.items EXCEPT ![i].hidden_from_main = TRUE]
            IN [win |-> [st EXCEPT !.favorites_file = save_favorites(its),
                                   !.items = refresh_visibility(its, st.current_tab)],
                stack |-> stack]
       ELSE [win |-> remove_item(st, i), stack |-> Append(stack, <<snapshot(w)>>)]

\* handle_item_deletion_request that removes favorites from All Items too
handle_item_deletion_request_removes_favorite(st, stack, i) ==
    LET w == st.items[i]
    IN IF st.current_tab = "fav"
       THEN LET its == [st.items EXCEPT ![i].is_favorite = FALSE,
                                        ![i].hidden_from_main = FALSE]
            IN [win |-> [st EXCEPT !.favorites_file = save_favorites(its),
                                   !.items = refresh_visibility(its, st.current_tab)],
                stack |-> stack]
       ELSE [win |-> remove_item(st, i), stack |-> Append(stack, <<snapshot(w)>>)]

\* handle_item_deletion_request: the window state and the undo stack it leaves
handle_item_deletion_request(st, stack, i) ==
    LET w == st.items[i]
    IN IF st.current_tab = "fav"
       THEN LET its == [st.items EXCEPT ![i].is_favorite = FALSE,
                                        ![i].hidden_from_main = FALSE]
            IN [win |-> [st EXCEPT !.favorites_file = save_favorites(its),
                                   !.items = refresh_visibility(its, st.current_tab)],
                stack |-> stack]
       ELSE IF w.is_favorite
       THEN LET its == [st.items EXCEPT ![i].hidden_from_main = TRUE]
            IN [win |-> [st EXCEPT !.favorites_file = save_favorites(its),
                                   !.items = refresh_visibility(its, st.current_tab)],
                stack |-> stack]
       ELSE [win |-> remove_item(st, i), stack |-> Append(stack, <<snapshot(w)>>)]

\* the request removes the widget for good
Permanent(i) == current_tab # "fav" /\ ~items[i].is_favorite

RequestRemoval(i) ==
    /\ Clickable(i)
    /\ Permanent(i) => Len(undo_stack) < MaxUndo
    /\ LET r == handle_item_deletion_request(Window, undo_stack, i)
       IN Becomes(r.win) /\ undo_stack' = r.stack
    /\ UNCHANGED <<selection_mode, monitor_clipboard, clipboard, pending>>
    /\ UNCHANGED side
    /\ Note("delete", i)

\* undo_delete that takes the oldest batch (pop(0))
undo_delete_oldest(st, stack, now) ==
    IF stack = <<>> THEN [win |-> st, stack |-> stack]
    ELSE [win |-> undo_loop(st, stack[1], 1, now), stack |-> Tail(stack)]

\* undo_delete: the window state and the undo stack it leaves
undo_delete(st, stack, now) ==
    IF stack = <<>> THEN [win |-> st, stack |-> stack]
    ELSE [win |-> undo_loop(st, stack[Len(stack)], 1, now),
          stack |-> SubSeq(stack, 1, Len(stack) - 1)]

UndoDelete(now) ==
    /\ LET r == undo_delete(Window, undo_stack, now)
       IN Len(r.win.items) <= MaxItems /\ Becomes(r.win) /\ undo_stack' = r.stack
    /\ UNCHANGED <<selection_mode, monitor_clipboard, clipboard, pending>>
    /\ UNCHANGED side
    /\ Note("undo", Len(undo_stack))

\* toggle_selection_mode
ToggleSelectionMode ==
    /\ selection_mode' = ~selection_mode
    /\ items' = IF selection_mode
                THEN [i \in DOMAIN items |-> [items[i] EXCEPT !.is_selected = FALSE]]
                ELSE items
    /\ UNCHANGED <<current_tab, undo_stack, monitor_clipboard, max_history, clipboard_history,
                   history_file, favorites_file, clipboard, pending>>
    /\ UNCHANGED side
    /\ UNCHANGED fetching
    /\ Note("select_mode", 0)

\* DraggableItem._on_selection_changed: the user ticks or unticks the checkbox
SelectionChanged(i) ==
    /\ selection_mode
    /\ Clickable(i)
    /\ items' = [items EXCEPT ![i].is_selected = ~@]
    /\ UNCHANGED <<current_tab, undo_stack, selection_mode, monitor_clipboard, max_history,
                   clipboard_history, history_file, favorites_file, clipboard, pending>>
    /\ UNCHANGED side
    /\ UNCHANGED fetching
    /\ Note("select", i)

\* the widgets delete_selected_items collects
Selected(its) == SelectSeq(its, LAMBDA w : w.is_selected)

\* delete_selected_items with the question answered: window state, stack and mode
delete_selected_items(st, stack, mode, yes) ==
    IF ~yes THEN [win |-> st, stack |-> stack, mode |-> mode]
    ELSE LET batch == [k \in DOMAIN Selected(st.items) |-> snapshot(Selected(st.items)[k])]
             kept == SelectSeq(st.items, LAMBDA w : ~w.is_selected)
             its == refresh_visibility(kept, st.current_tab)
         IN [win |-> [st EXCEPT !.items = its, !.favorites_file = save_favorites(its)],
             stack |-> Append(stack, batch),
             mode |-> FALSE]

DeleteSelectedItems(yes) ==
    /\ selection_mode
    /\ Selected(items) # <<>>
    /\ yes => Len(undo_stack) < MaxUndo
    /\ LET r == delete_selected_items(Window, undo_stack, selection_mode, yes)
       IN Becomes(r.win) /\ undo_stack' = r.stack /\ selection_mode' = r.mode
    /\ UNCHANGED <<monitor_clipboard, clipboard, pending>>
    /\ UNCHANGED side
    /\ Note(IF yes THEN "bulk" ELSE "bulk_no", 0)

\* clear_shelf that removes the non-favorites and leaves the favorites as they are
clear_shelf_no_hide(st, yes) ==
    IF ~yes THEN st
    ELSE LET kept == SelectSeq(st.items, LAMBDA w : w.is_favorite)
             its == refresh_visibility(kept, st.current_tab)
         IN [st EXCEPT !.items = its, !.favorites_file = save_favorites(its)]

\* clear_shelf with the question answered
clear_shelf(st, yes) ==
    IF ~yes THEN st
    ELSE LET marked == [i \in DOMAIN st.items |->
                          IF st.items[i].is_favorite
                          THEN [st.items[i] EXCEPT !.hidden_from_main = TRUE]
                          ELSE st.items[i]]
             kept == SelectSeq(marked, LAMBDA w : w.is_favorite)
             its == refresh_visibility(kept, st.current_tab)
         IN [st EXCEPT !.items = its, !.favorites_file = save_favorites(its)]

ClearShelf(yes) ==
    /\ Becomes(clear_shelf(Window, yes))
    /\ UNCHANGED <<undo_stack, selection_mode, monitor_clipboard, clipboard, pending>>
    /\ UNCHANGED side
    /\ Note(IF yes THEN "clear" ELSE "clear_no", 0)

(* ----------------------------- title fetch ----------------------------- *)
\* what the <title> of a fetched page can hold after strip(); "" also stands
\* for a fetch that fails or times out
Titles == {"", "T"}

\* TitleFetcher.run ends in its own thread: it emits title_fetched(url, title)
\* when it has a title, and the signal is queued for the owner thread
TitleFetcherRun(url, title) ==
    /\ url \in fetching
    /\ fetching' = fetching \ {url}
    /\ title_queue' = IF title # "" THEN title_queue \cup {<<url, title>>} ELSE title_queue
    /\ UNCHANGED <<items, current_tab, undo_stack, selection_mode, monitor_clipboard,
                   max_history, clipboard_history, history_file, favorites_file,
                   clipboard, pending>>
    /\ UNCHANGED <<current_sort, sort_ascending, settings_file, favorites_tmp,
                   favorites_bak, history_tmp, running, beside, launch>>
    /\ Note("fetched", 0)

\* _on_title_fetched that takes the title for the content of the item
_on_title_fetched_renames(its, i, url, title) ==
    IF its[i].content = url
    THEN [its EXCEPT ![i].text_label = title, ![i].content = title]
    ELSE its

\* DraggableItem._on_title_fetched on widget i
_on_title_fetched(its, i, url, title) ==
    IF its[i].content = url THEN [its EXCEPT ![i].text_label = title] ELSE its

\* the owner thread delivers a queued title_fetched signal to the url widget
\* whose fetcher emitted it
OnTitleFetched(i, msg) ==
    /\ msg \in title_queue
    /\ i \in DOMAIN items
    /\ items[i].data_type = "url"
    /\ items' = _on_title_fetched(items, i, msg[1], msg[2])
    /\ title_queue' = title_queue \ {msg}
    /\ UNCHANGED <<current_tab, undo_stack, selection_mode, monitor_clipboard,
                   max_history, clipboard_history, history_file, favorites_file,
                   clipboard, pending, fetching>>
    /\ UNCHANGED <<current_sort, sort_ascending, settings_file, favorites_tmp,
                   favorites_bak, history_tmp, running, beside, launch>>
    /\ Note("title", i)

\* the widget whose fetcher emitted the signal has been deleted or replaced:
\* the queued call is discarded with it
TitleDiscarded(msg) ==
    /\ msg \in title_queue
    /\ title_queue' = title_queue \ {msg}
    /\ UNCHANGED <<items, current_tab, undo_stack, selection_mode, monitor_clipboard,
                   max_history, clipboard_history, history_file, favorites_file,
                   clipboard, pending, fetching>>
    /\ UNCHANGED <<current_sort, sort_ascending, settings_file, favorites_tmp,
                   favorites_bak, history_tmp, running, beside, launch>>
    /\ Note("discarded", 0)

(* --------------------------- single instance --------------------------- *)
\* the store and the files are not followed while processes are launched
Shelf == <<items, current_tab, undo_stack, selection_mode, monitor_clipboard,
           max_history, clipboard_history, history_file, favorites_file,
           clipboard, pending, current_sort, sort_ascending, settings_file,
           favorites_tmp, favorites_bak, history_tmp, running,
           current_filter, search_query, fetching, title_queue>>

\* the program is started: the process runs __main__ up to the instance check
Launch(p) ==
    /\ pc[p] = "off"
    /\ pc' = [pc EXCEPT ![p] = "check"]
    /\ UNCHANGED <<server, connections, window_visible>>
    /\ UNCHANGED Shelf
    /\ Note("launch", p)

\* __main__, the single instance check: connectToServer(APP_ID); connected,
\* the process writes SHOW and exits, otherwise it goes on to build the window
InstanceCheck(p) ==
    /\ pc[p] = "check"
    /\ IF server # 0
       THEN /\ connections < MaxConnections
            /\ connections' = connections + 1
            /\ pc' = [pc EXCEPT ![p] = "off"]
       ELSE /\ pc' = [pc EXCEPT ![p] = "new"]
            /\ UNCHANGED connections
    /\ UNCHANGED <<server, window_visible>>
    /\ UNCHANGED Shelf
    /\ Note("check", p)

\* __main__: DropShelfWindow() and window.show(); setup_local_server listens
\* on APP_ID, which fails (and is not looked at) when a server listens already
NewWindow(p) ==
    /\ pc[p] = "new"
    /\ pc' = [pc EXCEPT ![p] = "run"]
    /\ server' = IF server = 0 THEN p ELSE server
    /\ window_visible' = window_visible \cup {p}
    /\ UNCHANGED connections
    /\ UNCHANGED Shelf
    /\ Note("window", p)

\* _handle_new_connection in the process whose server listens: SHOW read,
\* show_window
HandleNewConnection ==
    /\ connections > 0
    /\ server # 0 /\ pc[server] = "run"
    /\ connections' = connections - 1
    /\ window_visible' = window_visible \cup {server}
    /\ UNCHANGED <<pc, server>>
    /\ UNCHANGED Shelf
    /\ Note("show", server)

\* the window is hidden to the tray
HideWindow(p) ==
    /\ pc[p] = "run"
    /\ p \in window_visible
    /\ window_visible' = window_visible \ {p}
    /\ UNCHANGED <<pc, server, connections>>
    /\ UNCHANGED Shelf
    /\ Note("hide", p)

\* _force_quit: the process ends, its server with it
QuitProcess(p) ==
    /\ pc[p] = "run"
    /\ pc' = [pc EXCEPT ![p] = "off"]
    /\ server' = IF server = p THEN 0 ELSE server
    /\ connections' = IF server = p THEN 0 ELSE connections
    /\ window_visible' = window_visible \ {p}
    /\ UNCHANGED Shelf
    /\ Note("exit", p)

(* ---------------------------- filter, search --------------------------- *)
Filters == {"all", "file", "url", "text"}

\* _on_filter_changed
OnFilterChanged(filter) ==
    /\ current_filter' = filter
    /\ items' = [i \in DOMAIN items |->
                   [items[i] EXCEPT !.visible = shown(items[i], current_tab, filter, search_query)]]
    /\ UNCHANGED <<current_tab, undo_stack, selection_mode, monitor_clipboard, max_history,
                   clipboard_history, history_file, favorites_file, clipboard, pending>>
    /\ UNCHANGED <<current_sort, sort_ascending, settings_file, favorites_tmp,
                   favorites_bak, history_tmp, running, search_query>>
    /\ UNCHANGED apart
    /\ UNCHANGED fetching
    /\ Note("filter", 0)

\* _on_search_changed
OnSearchChanged(text) ==
    /\ search_query' = strip(text)
    /\ items' = [i \in DOMAIN items |->
                   [items[i] EXCEPT !.visible =
                       shown(items[i], current_tab, current_filter, strip(text))]]
    /\ UNCHANGED <<current_tab, undo_stack, selection_mode, monitor_clipboard, max_history,
                   clipboard_history, history_file, favorites_file, clipboard, pending>>
    /\ UNCHANGED <<current_sort, sort_ascending, settings_file, favorites_tmp,
                   favorites_bak, history_tmp, running, current_filter>>
    /\ UNCHANGED apart
    /\ UNCHANGED fetching
    /\ Note("search", 0)

(* ------------------------------ start-up ------------------------------- *)
\* settings.json is absent
NoSettings == [exists |-> FALSE, monitor_clipboard |-> TRUE, max_history |-> MAX_HISTORY]

\* load_settings: the values the window starts with
load_settings(settings) ==
    IF settings.exists
    THEN [monitor_clipboard |-> settings.monitor_clipboard, max_history |-> settings.max_history]
    ELSE [monitor_clipboard |-> TRUE, max_history |-> MAX_HISTORY]

RECURSIVE history_loop(_, _, _, _)
\* the loop of load_history appending to deque(maxlen=maxlen)
history_loop(d, data, k, maxlen) ==
    IF k > Len(data) THEN d
    ELSE history_loop(deque_append(d, maxlen, data[k]), data, k + 1, maxlen)

\* load_history
load_history(st) ==
    IF ~st.history_file.exists \/ ~is_json(st.history_file) THEN st
    ELSE [st EXCEPT !.clipboard_history =
                       history_loop(st.clipboard_history, st.history_file.data, 1,
                                    Max(1, st.max_history))]

RECURSIVE load_loop(_, _, _, _)
\* the loop of load_favorites over reversed(data); entry['type'] or
\* entry['content'] raising KeyError leaves the loop with the records added so far
load_loop(st, data, k, now) ==
    IF k = 0 THEN st
    ELSE IF data[k].type = Missing \/ data[k].content = Missing THEN st
    ELSE load_loop(add_item(st, data[k].type, data[k].content, data[k].is_favorite,
                            data[k].hidden_from_main, data[k].tags, data[k].date_added,
                            data[k].use_count, now),
                   data, k - 1, now)

\* load_favorites that adds the records in the order of the file
load_favorites_in_order(st, now) ==
    IF ~st.favorites_file.exists \/ ~is_json(st.favorites_file) THEN st
    ELSE LET data == st.favorites_file.data
         IN load_loop(st, [k \in DOMAIN data |-> data[Len(data) + 1 - k]], Len(data), now)

\* load_favorites
load_favorites(st, now) ==
    IF ~st.favorites_file.exists \/ ~is_json(st.favorites_file) THEN st
    ELSE load_loop(st, st.favorites_file.data, Len(st.favorites_file.data), now)

\* DropShelfWindow.__init__: the window state after load_settings and
\* load_history, before load_favorites
before_load(settings, hfile, ffile) ==
    load_history([items |-> <<>>, current_tab |-> "all",
                  favorites_file |-> ffile,
                  max_history |-> load_settings(settings).max_history,
                  clipboard_history |-> <<>>, history_file |-> hfile,
                  fetching |-> {}])

\* DropShelfWindow.__init__: the window state after load_settings,
\* load_history and load_favorites
startup(settings, hfile, ffile, now) ==
    load_favorites(before_load(settings, hfile, ffile), now)

\* the window state inside load_favorites when the records after the j-th of
\* the file have been added: j = Len(data) before the first add_item, j = 0
\* when the loop has finished
loading(settings, hfile, ffile, j, now) ==
    LET data == ffile.data
    IN load_loop(before_load(settings, hfile, ffile),
                 SubSeq(data, j + 1, Len(data)), Len(data) - j, now)

\* the state after construction with the given files in the data directory
Constructed(settings, hfile, ffile, now) ==
    /\ current_filter = "all"
    /\ search_query = ""
    /\ items = startup(settings, hfile, ffile, now).items
    /\ current_tab = startup(settings, hfile, ffile, now).current_tab
    /\ favorites_file = startup(settings, hfile, ffile, now).favorites_file
    /\ max_history = startup(settings, hfile, ffile, now).max_history
    /\ clipboard_history = startup(settings, hfile, ffile, now).clipboard_history
    /\ history_file = startup(settings, hfile, ffile, now).history_file
    /\ fetching = startup(settings, hfile, ffile, now).fetching
    /\ title_queue = {}
    /\ pc = [p \in Procs |-> IF p = 1 THEN "run" ELSE "off"]
    /\ server = 1
    /\ connections = 0
    /\ window_visible = {1}
    /\ monitor_clipboard = load_settings(settings).monitor_clipboard
    /\ settings_file = settings
    /\ undo_stack = <<>>
    /\ selection_mode = FALSE
    /\ current_sort = "newest"
    /\ sort_ascending = FALSE
    /\ clipboard = TextPayload(NoText)
    /\ pending = 0
    /\ favorites_tmp = NoFile
    /\ favorites_bak = NoFile
    /\ history_tmp = NoFile
    /\ running = TRUE
    /\ last = [op |-> "init", i |-> 0]
    /\ tog = NoTog
    /\ add_log = <<>>

\* _force_quit: save_favorites, save_settings, QApplication.quit(); the
\* variables of the window keep what the process held when it ended
ForceQuit ==
    /\ running
    /\ running' = FALSE
    /\ favorites_file' = save_favorites(items)
    /\ settings_file' = save_settings(monitor_clipboard, max_history)
    /\ UNCHANGED <<items, current_tab, undo_stack, selection_mode, monitor_clipboard,
                   max_history, clipboard_history, history_file, clipboard, pending>>
    /\ UNCHANGED <<current_sort, sort_ascending, favorites_tmp, favorites_bak, history_tmp>>
    /\ UNCHANGED beside
    /\ UNCHANGED apart
    /\ UNCHANGED fetching
    /\ Note("quit", 0)

\* the program is launched again: DropShelfWindow.__init__ on the files the
\* last run left
Start(now) ==
    /\ ~running
    /\ running' = TRUE
    \* the new window starts with no type filter and an empty search box
    /\ LET st == startup(settings_file, history_file, favorites_file, now)
       IN Becomes([st EXCEPT !.items = [i \in DOMAIN st.items |->
                     [st.items[i] EXCEPT !.visible =
                         shown(st.items[i], st.current_tab, "all", "")]]])
    /\ current_filter' = "all"
    /\ search_query' = ""
    /\ title_queue' = {}
    /\ UNCHANGED launch
    /\ monitor_clipboard' = load_settings(settings_file).monitor_clipboard
    /\ undo_stack' = <<>>
    /\ selection_mode' = FALSE
    /\ current_sort' = "newest"
    /\ sort_ascending' = FALSE
    /\ clipboard' = TextPayload(NoText)
    /\ pending' = 0
    /\ UNCHANGED <<settings_file, favorites_tmp, favorites_bak, history_tmp>>
    \* noted with 1 when the files are as the quit of the last run left them
    /\ Note("start", IF last.op = "quit" THEN 1 ELSE 0)

\* while the program is not running the files of the data directory are
\* replaced: a backup is restored, a file is edited by hand or cut short
PlaceFiles(ffile, hfile) ==
    /\ ~running
    /\ favorites_file' = ffile
    /\ history_file' = hfile
    /\ UNCHANGED <<items, current_tab, undo_stack, selection_mode, monitor_clipboard,
                   max_history, clipboard_history, clipboard, pending>>
    /\ UNCHANGED side
    /\ UNCHANGED fetching
    /\ Note("files", 0)

(* --------------------------- settings dialog --------------------------- *)
\* the sizes history_spin offers
Sizes == 0..MaxSpin

\* the deque _save_and_close leaves when the spin box holds size
resize(history, old_size, size) ==
    IF size = old_size THEN history
    ELSE IF size = 0 THEN <<>>
    ELSE SubSeq(history, 1, IF Len(history) < size THEN Len(history) ELSE size)

\* SettingsDialog._save_and_close
SaveAndClose(monitor, size) ==
    /\ monitor_clipboard' = monitor
    /\ max_history' = size
    /\ clipboard_history' = resize(clipboard_history, max_history, size)
    /\ settings_file' = save_settings(monitor, size)
    \* _update_history_tab_visibility leaves the history tab when it is hidden
    /\ IF size # max_history /\ size = 0 /\ current_tab = "history"
       THEN current_tab' = "all" /\ items' = refresh_visibility(items, "all")
       ELSE UNCHANGED <<items, current_tab>>
    /\ UNCHANGED <<undo_stack, selection_mode, history_file,
                   favorites_file, clipboard, pending>>
    /\ UNCHANGED <<current_sort, sort_ascending, favorites_tmp, favorites_bak,
                   history_tmp, running>>
    /\ UNCHANGED beside
    /\ UNCHANGED apart
    /\ UNCHANGED fetching
    /\ Note("settings", max_history)

(* -------------------------- writing the files -------------------------- *)
\* how a save ends: every file operation succeeds, or operation `stop` raises
\* (the except branch then removes the temporary file), or the process is
\* killed while operation `stop` is under way
Done == [stop |-> 0, crash |-> FALSE]
Endings(steps) == {Done} \cup [stop : steps, crash : BOOLEAN]

\* the file operations of save_favorites that run with these files present:
\* 1 write favorites.json.tmp, 2 remove favorites.json.bak,
\* 3 rename favorites.json to .bak, 4 rename .tmp to favorites.json
favorites_steps(fs) ==
    {1, 4} \cup (IF fs.file.exists THEN {3} ELSE {})
           \cup (IF fs.file.exists /\ fs.bak.exists THEN {2} ELSE {})

\* save_favorites writing data, file operation by file operation
write_favorites(fs, data, end) ==
    LET reached(k) == end.stop = 0 \/ end.stop > k
        f1 == [fs EXCEPT !.tmp = IF reached(1) THEN [exists |-> TRUE, data |-> data]
                                 ELSE InvalidJson]
        f2 == IF reached(2) /\ f1.file.exists /\ f1.bak.exists
              THEN [f1 EXCEPT !.bak = NoFile] ELSE f1
        f3 == IF reached(3) /\ f2.file.exists
              THEN [f2 EXCEPT !.bak = f2.file, !.file = NoFile] ELSE f2
        f4 == IF reached(4) THEN [f3 EXCEPT !.file = f3.tmp, !.tmp = NoFile] ELSE f3
    IN IF end.stop # 0 /\ ~end.crash THEN [f4 EXCEPT !.tmp = NoFile] ELSE f4

\* the file operations of save_history that run with these files present:
\* 1 write history.json.tmp, 2 remove history.json, 3 rename .tmp to history.json
history_steps(fs) == {1, 3} \cup (IF fs.file.exists THEN {2} ELSE {})

\* save_history writing data, file operation by file operation
write_history(fs, data, end) ==
    LET reached(k) == end.stop = 0 \/ end.stop > k
        f1 == [fs EXCEPT !.tmp = IF reached(1) THEN [exists |-> TRUE, data |-> data]
                                 ELSE InvalidJson]
        f2 == IF reached(2) /\ f1.file.exists THEN [f1 EXCEPT !.file = NoFile] ELSE f1
        f3 == IF reached(3) THEN [f2 EXCEPT !.file = f2.tmp, !.tmp = NoFile] ELSE f2
    IN IF end.stop # 0 /\ ~end.crash THEN [f3 EXCEPT !.tmp = NoFile] ELSE f3

FavoritesFiles == [file |-> favorites_file, tmp |-> favorites_tmp, bak |-> favorites_bak]
HistoryFiles == [file |-> history_file, tmp |-> history_tmp]

\* toggle_favorite with the file operations of its save spelled out
ToggleFavoriteWrite(i, end) ==
    /\ running
    /\ Clickable(i)
    /\ end \in Endings(favorites_steps(FavoritesFiles))
    /\ LET st == toggle_favorite(Window, i)
           fs == write_favorites(FavoritesFiles, save_favorites(st.items).data, end)
       IN /\ items' = st.items
          /\ favorites_file' = fs.file
          /\ favorites_tmp' = fs.tmp
          /\ favorites_bak' = fs.bak
    /\ running' = ~end.crash
    /\ UNCHANGED <<current_tab, undo_stack, selection_mode, monitor_clipboard, max_history,
                   clipboard_history, history_file, clipboard, pending, current_sort,
                   sort_ascending, settings_file, history_tmp>>
    /\ UNCHANGED beside
    /\ UNCHANGED apart
    /\ UNCHANGED fetching
    /\ Note("toggle", i)

\* _on_clipboard_change capturing a text, with the file operations of
\* save_history and save_favorites spelled out; killed during save_history,
\* the process never reaches add_item
ClipboardChangeWrite(now, hend, fend) ==
    /\ running
    /\ pending > 0
    /\ monitor_clipboard
    /\ max_history > 0
    /\ ClipPair(clipboard) # <<>>
    /\ hend \in Endings(history_steps(HistoryFiles))
    /\ LET st == on_clipboard_change(Window, monitor_clipboard, clipboard, now)
           hs == write_history(HistoryFiles, st.clipboard_history, hend)
           fs == IF hend.crash THEN FavoritesFiles
                 ELSE write_favorites(FavoritesFiles, save_favorites(st.items).data, fend)
       IN /\ Len(st.items) <= MaxItems
          /\ IF hend.crash THEN fend = Done
             ELSE fend \in Endings(favorites_steps(FavoritesFiles))
          /\ clipboard_history' = st.clipboard_history
          /\ history_file' = hs.file
          /\ history_tmp' = hs.tmp
          /\ items' = IF hend.crash THEN items ELSE st.items
          /\ current_tab' = IF hend.crash THEN current_tab ELSE st.current_tab
          /\ fetching' = IF hend.crash THEN fetching ELSE st.fetching
          /\ favorites_file' = fs.file
          /\ favorites_tmp' = fs.tmp
          /\ favorites_bak' = fs.bak
    /\ running' = ~(hend.crash \/ fend.crash)
    /\ pending' = pending - 1
    /\ UNCHANGED <<undo_stack, selection_mode, monitor_clipboard, max_history, clipboard,
                   current_sort, sort_ascending, settings_file>>
    /\ UNCHANGED beside
    /\ UNCHANGED apart
    /\ Note("clip", 0)

(* --------------------------- sort and reorder -------------------------- *)
Sorts == {"newest", "oldest", "name", "type", "size", "used"}

\* str(content).lower() of the contents of the model, in string order
NameRank(c) == CASE c = " a" -> 1
                 [] c = "/f" -> 2
                 [] c = "a" -> 3
                 [] c = "b" -> 4
                 [] c = "http://u" -> 5
                 [] OTHER -> 0

\* data_type.value in string order
TypeRank(t) == CASE t = "file" -> 1
                 [] t = "text" -> 2
                 [] OTHER -> 3

\* get_size: os.path.getsize of an existing file, 0 for anything else
get_size(w) == IF w.data_type = "file" /\ w.content = "/f" THEN 1 ELSE 0

\* the key= of the sort chosen
sort_key(w, sort) == CASE sort \in {"newest", "oldest"} -> w.date_added
                       [] sort = "name" -> NameRank(w.content)
                       [] sort = "type" -> TypeRank(w.data_type)
                       [] sort = "size" -> get_size(w)
                       [] OTHER -> w.use_count

\* a sort by use count that ignores the direction button
sort_reverse_used_fixed(sort, ascending) ==
    IF sort = "used" THEN TRUE
    ELSE IF sort \in {"newest", "size"} THEN ~ascending ELSE ascending

\* the reverse= of the sort chosen
sort_reverse(sort, ascending) ==
    IF sort \in {"newest", "size", "used"} THEN ~ascending ELSE ascending

RECURSIVE list_sort(_, _, _)
\* list.sort(key=..., reverse=...): stable in both directions
list_sort(its, sort, reverse) ==
    IF its = <<>> THEN <<>>
    ELSE LET head == list_sort(SubSeq(its, 1, Len(its) - 1), sort, reverse)
             x == its[Len(its)]
             n == Cardinality({k \in DOMAIN head :
                                 IF reverse THEN sort_key(head[k], sort) >= sort_key(x, sort)
                                 ELSE sort_key(head[k], sort) <= sort_key(x, sort)})
         IN SubSeq(head, 1, n) \o <<x>> \o SubSeq(head, n + 1, Len(head))

\* _sort_items
_sort_items(st, sort, ascending) ==
    [st EXCEPT !.items = refresh_visibility(list_sort(st.items, sort, sort_reverse(sort, ascending)),
                                            st.current_tab)]

\* _on_sort_changed
OnSortChanged(sort) ==
    /\ current_sort' = sort
    /\ Becomes(_sort_items(Window, sort, sort_ascending))
    /\ UNCHANGED <<undo_stack, selection_mode, monitor_clipboard, clipboard, pending,
                   sort_ascending, settings_file, favorites_tmp, favorites_bak, history_tmp, running>>
    /\ UNCHANGED beside
    /\ UNCHANGED apart
    /\ Note("sort", 0)

\* _toggle_sort_direction
ToggleSortDirection ==
    /\ sort_ascending' = ~sort_ascending
    /\ Becomes(_sort_items(Window, current_sort, ~sort_ascending))
    /\ UNCHANGED <<undo_stack, selection_mode, monitor_clipboard, clipboard, pending,
                   current_sort, settings_file, favorites_tmp, favorites_bak, history_tmp, running>>
    /\ UNCHANGED beside
    /\ UNCHANGED apart
    \* noted with 1 when the step before chose the sort key
    /\ Note("sort_dir", IF last.op = "sort" THEN 1 ELSE 0)

\* dropEvent with widget i of the shelf dragged; j is the first widget of
\* the layout whose vertical midpoint lies below the drop position, 0 when
\* there is none. insert_index is found before the widget is taken out:
\* it is j, or count() - 1, which lies behind every widget
reorder(st, i, j) ==
    LET rest == RemoveAt(st.items, i)
        insert_index == IF j = 0 \/ j > Len(rest) THEN Len(rest) + 1 ELSE j
        its == SubSeq(rest, 1, insert_index - 1) \o <<st.items[i]>>
                  \o SubSeq(rest, insert_index, Len(rest))
    IN [st EXCEPT !.items = its, !.favorites_file = save_favorites(its)]

Reorder(i, j) ==
    /\ Clickable(i)
    /\ j \in 0..Len(items)
    /\ Becomes(reorder(Window, i, j))
    /\ UNCHANGED <<undo_stack, selection_mode, monitor_clipboard, clipboard, pending>>
    /\ UNCHANGED side
    \* noted with the widget dragged and the widget found under the drop
    /\ last' = [op |-> "reorder", i |-> i, j |-> j]

(* ---------------------------- specification ---------------------------- *)
\* the window after construction with no favorites.json and no history.json;
\* settings.json sets monitor_clipboard and max_history (here: history off)
InitShelf ==
    /\ items = <<>>
    /\ current_tab = "all"
    /\ undo_stack = <<>>
    /\ selection_mode = FALSE
    /\ max_history = 0
    /\ clipboard_history = <<>>
    /\ history_file = NoFile
    /\ favorites_file = NoFile
    /\ clipboard = TextPayload(NoText)
    /\ pending = 0
    /\ last = [op |-> "init", i |-> 0]
    /\ tog = NoTog
    /\ add_log = <<>>
    /\ current_sort = "newest"
    /\ sort_ascending = FALSE
    /\ favorites_tmp = NoFile
    /\ favorites_bak = NoFile
    /\ history_tmp = NoFile
    /\ current_filter = "all"
    /\ search_query = ""
    /\ fetching = {}
    /\ title_queue = {}

\* one process runs: its window is on screen and its server listens
InitWindow ==
    /\ InitShelf
    /\ running = TRUE
    /\ pc = [p \in Procs |-> IF p = 1 THEN "run" ELSE "off"]
    /\ server = 1
    /\ connections = 0
    /\ window_visible = {1}

Init == InitWindow /\ monitor_clipboard = TRUE /\ settings_file = save_settings(TRUE, 0)

(* Store specification: capture, import, tabs, favorites, delete, undo, clear *)
LocalFile(path) == UrlsPayload(<<[local |-> TRUE, path |-> path]>>)

StorePayloads == {TextPayload("a"), TextPayload(" a")}
\* records of an items file chosen in the import dialog; an absent optional
\* key reads as the default .get() supplies
StoreRecords ==
    { ImportRecord("text", "a", FALSE, TRUE, <<>>, NoDate, 0),
      ImportRecord("url", "http://u", TRUE, TRUE, <<>>, NoDate, 0) }
StoreFiles == UNION {[1..n -> StoreRecords] : n \in 1..MaxImport}

\* the ghosts a step leaves alone
Quiet == UNCHANGED <<tog, add_log>>

\* tog remembers the store before the first of two toggle_favorite calls made
\* in a row on the same widget
ToggleTwice(i) ==
    tog' = IF tog.phase = 1 /\ tog.i = i
           THEN [phase |-> 2, i |-> i, pre |-> tog.pre]
           ELSE [phase |-> 1, i |-> i, pre |-> items]

NotToggle == tog' = NoTog /\ add_log' = add_log

Next ==
    \/ \E p \in StorePayloads : ExternalCopy(p) /\ NotToggle
    \/ OnClipboardChange(1) /\ NotToggle
    \/ \E f \in StoreFiles : ImportItems(f, 1) /\ NotToggle
    \/ \E t \in Tabs : SwitchTab(t) /\ NotToggle
    \/ \E i \in DOMAIN items : RequestRemoval(i) /\ NotToggle
    \/ UndoDelete(1) /\ NotToggle
    \/ \E yes \in BOOLEAN : ClearShelf(yes) /\ NotToggle
    \/ \E i \in DOMAIN items :
          ToggleFavorite(i) /\ ToggleTwice(i) /\ add_log' = add_log

Spec == Init /\ [][Next]_vars

(* Edit specification: capture, the edit dialog and delete *)
EditPayloads == {TextPayload("a"), TextPayload("http://u")}

NextEdit ==
    \/ \E p \in EditPayloads : ExternalCopy(p) /\ Quiet
    \/ OnClipboardChange(1) /\ Quiet
    \/ \E i \in DOMAIN items, c \in EditTexts, t \in TagLists : EditItem(i, c, t) /\ Quiet
    \/ \E i \in DOMAIN items : RequestRemoval(i) /\ Quiet

SpecEdit == Init /\ [][NextEdit]_vars

(* Undo specification: import, edit, favorites, tabs, delete and undo *)
UndoFiles == {<<ImportRecord("text", "a", FALSE, FALSE, <<>>, NoDate, 0)>>,
              <<ImportRecord("text", "a", FALSE, FALSE, <<"t">>, 2, 1)>>,
              <<ImportRecord("text", "b", FALSE, FALSE, <<>>, NoDate, 0),
                ImportRecord(Missing, "a", FALSE, FALSE, <<>>, NoDate, 0)>>,
              <<ImportRecord("bogus", "a", FALSE, FALSE, <<>>, NoDate, 0)>>}
\* what the user types into the edit dialog here
UndoEdits == {"a"}

NextUndo ==
    \/ \E f \in UndoFiles : ImportItems(f, 1) /\ Quiet
    \/ \E i \in DOMAIN items, c \in UndoEdits : EditItem(i, c, items[i].tags) /\ Quiet
    \/ \E i \in DOMAIN items : ToggleFavorite(i) /\ Quiet
    \/ \E t \in Tabs : SwitchTab(t) /\ Quiet
    \/ \E i \in DOMAIN items : RequestRemoval(i) /\ Quiet
    \/ UndoDelete(1) /\ Quiet

SpecUndo == Init /\ [][NextUndo]_vars

(* Bulk specification: import, selection mode, bulk delete, delete and undo *)
BulkFiles == {<<ImportRecord("text", "a", FALSE, FALSE, <<>>, NoDate, 0)>>,
              <<ImportRecord("url", "http://u", TRUE, FALSE, <<"t">>, 2, 1)>>}

NextBulk ==
    \/ \E f \in BulkFiles : ImportItems(f, 1) /\ Quiet
    \/ ToggleSelectionMode /\ Quiet
    \/ \E i \in DOMAIN items : SelectionChanged(i) /\ Quiet
    \/ \E yes \in BOOLEAN : DeleteSelectedItems(yes) /\ Quiet
    \/ \E i \in DOMAIN items : RequestRemoval(i) /\ Quiet
    \/ UndoDelete(1) /\ Quiet

SpecBulk == Init /\ [][NextBulk]_vars

(* Use specification: the primary action and the clipboard monitor *)
InitUse ==
    /\ InitWindow
    /\ monitor_clipboard \in BOOLEAN
    /\ settings_file = save_settings(monitor_clipboard, 0)

UsePayloads == {TextPayload("a"), TextPayload("http://u"), LocalFile("/f")}

NextUse ==
    \/ \E p \in UsePayloads : ExternalCopy(p) /\ Quiet
    \/ \E now \in Times : OnClipboardChange(now) /\ Quiet
    \/ \E i \in DOMAIN items : HandleOpen(i) /\ Quiet
    \/ \E i \in DOMAIN items, c \in EditTexts : EditItem(i, c, items[i].tags) /\ Quiet

SpecUse == InitUse /\ [][NextUse]_vars

(* Add specification: add_item calls on an empty store *)
AddKinds == {"text", "url"}
AddContents == {"a", "http://u"}

\* one add_item call, logged
AddCall(dtype, content, fav, hid, now) ==
    /\ Len(add_log) < MaxAdds
    /\ Becomes(add_item(Window, dtype, content, fav, hid, <<>>, NoDate, 0, now))
    /\ add_log' = Append(add_log, [type |-> dtype, content |-> content, is_favorite |-> fav])
    /\ UNCHANGED <<undo_stack, selection_mode, monitor_clipboard, clipboard, pending>>
    /\ UNCHANGED side
    /\ Note("add", 0)
    /\ tog' = tog

NextAdd ==
    \E dtype \in AddKinds, content \in AddContents, fav \in BOOLEAN, hid \in BOOLEAN :
        AddCall(dtype, content, fav, hid, 1)

SpecAdd == Init /\ [][NextAdd]_vars

(* Persist specification: capture, import, favorites, sort and reorder *)
PersistPayloads == {TextPayload("a")}
PersistFiles == {<<ImportRecord("text", "b", FALSE, FALSE, <<>>, 2, 1)>>,
                 <<ImportRecord("url", "http://u", TRUE, TRUE, <<>>, NoDate, 0)>>}

NextPersist ==
    \/ \E p \in PersistPayloads : ExternalCopy(p) /\ Quiet
    \/ OnClipboardChange(1) /\ Quiet
    \/ \E f \in PersistFiles : ImportItems(f, 1) /\ Quiet
    \/ \E i \in DOMAIN items : ToggleFavorite(i) /\ Quiet
    \/ \E sort \in Sorts : OnSortChanged(sort) /\ Quiet
    \/ ToggleSortDirection /\ Quiet
    \/ \E i \in DOMAIN items, j \in 0..Len(items) : Reorder(i, j) /\ Quiet

SpecPersist == Init /\ [][NextPersist]_vars

\* the event loop delivers a queued dataChanged signal; nothing else runs
\* unless the user or another application acts
SpecPersistLive == SpecPersist /\ WF_vars(OnClipboardChange(1) /\ Quiet)

(* Write specification: saves that fail or are cut short *)
InitWrite == Constructed(save_settings(TRUE, 1), NoFile, NoFile, 1)

WritePayloads == {TextPayload("a")}
Ends == [stop : 0..4, crash : BOOLEAN]

NextWrite ==
    \/ \E p \in WritePayloads : running /\ ExternalCopy(p) /\ Quiet
    \/ \E now \in Times, hend \in Ends, fend \in Ends :
          ClipboardChangeWrite(now, hend, fend) /\ Quiet
    \/ \E i \in DOMAIN items, end \in Ends : ToggleFavoriteWrite(i, end) /\ Quiet

SpecWrite == InitWrite /\ [][NextWrite]_vars

(* Start-up specification: capture, favorites, clear, quit, files replaced,
   launch *)
InitStart == Constructed(NoSettings, NoFile, NoFile, 1)

StartPayloads == {TextPayload("a"), TextPayload("http://u")}
\* files found in the data directory at launch
StartFavorites ==
    { InvalidJson,
      [exists |-> TRUE,
       data |-> <<ImportRecord("text", "a", TRUE, TRUE, <<"t">>, 2, 1),
                  ImportRecord("url", "http://u", FALSE, FALSE, <<>>, 1, 0)>>],
      [exists |-> TRUE,
       data |-> <<ImportRecord("text", "a", FALSE, FALSE, <<>>, 1, 0),
                  ImportRecord("text", Missing, FALSE, FALSE, <<>>, 1, 0)>>],
      [exists |-> TRUE,
       data |-> <<ImportRecord(Missing, "a", FALSE, FALSE, <<>>, 1, 0),
                  ImportRecord("url", "http://u", FALSE, FALSE, <<>>, 1, 0)>>],
      [exists |-> TRUE,
       data |-> <<ImportRecord("bogus", "a", FALSE, FALSE, <<>>, 1, 0),
                  ImportRecord("url", "http://u", FALSE, FALSE, <<>>, 1, 0)>>] }
StartHistories ==
    { NoFile, InvalidJson,
      [exists |-> TRUE, data |-> <<[type |-> "text", content |-> "a", time |-> 1]>>] }

NextStart ==
    \/ \E p \in StartPayloads : running /\ ExternalCopy(p) /\ Quiet
    \/ \E now \in Times : running /\ OnClipboardChange(now) /\ Quiet
    \/ \E i \in DOMAIN items : running /\ ToggleFavorite(i) /\ Quiet
    \/ \E yes \in BOOLEAN : running /\ ClearShelf(yes) /\ Quiet
    \/ ForceQuit /\ Quiet
    \/ \E f \in StartFavorites, h \in StartHistories : PlaceFiles(f, h) /\ Quiet
    \/ \E now \in Times : Start(now) /\ Quiet

SpecStart == InitStart /\ [][NextStart]_vars

(* History specification: capture, settings dialog, quit, launch *)
HistoryPayloads == {TextPayload("a"), TextPayload("b")}

NextHistory ==
    \/ \E p \in HistoryPayloads : running /\ ExternalCopy(p) /\ Quiet
    \/ \E now \in Times : running /\ OnClipboardChange(now) /\ Quiet
    \/ \E monitor \in BOOLEAN, size \in Sizes : running /\ SaveAndClose(monitor, size) /\ Quiet
    \/ ForceQuit /\ Quiet
    \/ \E now \in Times : Start(now) /\ Quiet

SpecHistory == InitStart /\ [][NextHistory]_vars

(* View specification: capture, favorites, tabs, type filter, search, edit *)
ViewPayloads == {TextPayload("a"), TextPayload("http://u")}
\* what the user types into the search box
ViewQueries == {"", "A ", "t"}
ViewEdits == {"b"}

NextView ==
    \/ \E p \in ViewPayloads : ExternalCopy(p) /\ Quiet
    \/ OnClipboardChange(1) /\ Quiet
    \/ \E i \in DOMAIN items : ToggleFavorite(i) /\ Quiet
    \/ \E tab \in Tabs : SwitchTab(tab) /\ Quiet
    \/ \E filter \in Filters : OnFilterChanged(filter) /\ Quiet
    \/ \E text \in ViewQueries : OnSearchChanged(text) /\ Quiet
    \/ \E i \in DOMAIN items, c \in ViewEdits, tags \in TagLists :
          EditItem(i, c, tags) /\ Quiet

SpecView == Init /\ [][NextView]_vars

(* Sort specification: import, sort key, sort direction *)
SortRecords ==
    { ImportRecord("text", "a", FALSE, FALSE, <<>>, 1, 1),
      ImportRecord("text", "b", TRUE, FALSE, <<"t">>, 2, 0),
      ImportRecord("url", "http://u", FALSE, FALSE, <<>>, 1, 2) }
SortFiles == UNION {[1..n -> SortRecords] : n \in 1..MaxImport}

NextSort ==
    \/ \E f \in SortFiles : ImportItems(f, 1) /\ Quiet
    \/ \E sort \in Sorts : OnSortChanged(sort) /\ Quiet
    \/ ToggleSortDirection /\ Quiet

SpecSort == Init /\ [][NextSort]_vars

(* Launch specification: the program is started up to twice at a time *)
InitLaunch ==
    /\ InitShelf
    /\ monitor_clipboard = TRUE
    /\ settings_file = save_settings(TRUE, 0)
    /\ running = FALSE
    /\ pc = [p \in Procs |-> "off"]
    /\ server = 0
    /\ connections = 0
    /\ window_visible = {}

NextLaunch ==
    \/ \E p \in Procs : Launch(p) /\ Quiet
    \/ \E p \in Procs : InstanceCheck(p) /\ Quiet
    \/ \E p \in Procs : NewWindow(p) /\ Quiet
    \/ HandleNewConnection /\ Quiet
    \/ \E p \in Procs : HideWindow(p) /\ Quiet
    \/ \E p \in Procs : QuitProcess(p) /\ Quiet

SpecLaunch == InitLaunch /\ [][NextLaunch]_vars

(* Fetch specification: capture, edit of tags, delete, undo, title fetch *)
FetchPayloads == {TextPayload("a"), TextPayload("http://u")}

NextFetch ==
    \/ \E p \in FetchPayloads : ExternalCopy(p) /\ Quiet
    \/ OnClipboardChange(1) /\ Quiet
    \* the edit dialog changes the tags; the content of a url item is not editable
    \/ \E i \in DOMAIN items, tags \in TagLists :
          EditItem(i, items[i].content, tags) /\ Quiet
    \/ \E i \in DOMAIN items : RequestRemoval(i) /\ Quiet
    \/ UndoDelete(1) /\ Quiet
    \/ \E url \in fetching, title \in Titles : TitleFetcherRun(url, title) /\ Quiet
    \/ \E i \in DOMAIN items, msg \in title_queue : OnTitleFetched(i, msg) /\ Quiet
    \/ \E msg \in title_queue : TitleDiscarded(msg) /\ Quiet

SpecFetch == Init /\ [][NextFetch]_vars

(* ------------------------------- claims -------------------------------- *)
SamePair(w, dtype, content) == w.data_type = dtype /\ w.content = content

\* how many widgets of its hold the pair
Count(its, dtype, content) == Cardinality({j \in DOMAIN its : SamePair(its[j], dtype, content)})

\* C1: no two items of the store have the same (kind, content) pair.
C1_NoDuplicatePairs ==
    \A i, j \in DOMAIN items :
        i # j => ~SamePair(items[i], items[j].data_type, items[j].content)

\* C2: every item that is hidden from the main view is a favorite.
C2_HiddenImpliesFavorite ==
    \A i \in DOMAIN items : items[i].hidden_from_main => items[i].is_favorite

LogPairs == {<<add_log[k].type, add_log[k].content>> : k \in DOMAIN add_log}
CallsFor(w) == {k \in DOMAIN add_log : SamePair(w, add_log[k].type, add_log[k].content)}

\* C3: after add calls on an empty store the store holds one item per distinct
\* pair added (so as many items as calls when the pairs are distinct, and no
\* more after a repeated pair); an item's favorite flag is the OR of the
\* favorite arguments of the calls for its pair, and an item whose pair was
\* added again is not hidden from the main view.
C3_AddSequence ==
    /\ Len(items) = Cardinality(LogPairs)
    /\ \A i \in DOMAIN items :
          /\ CallsFor(items[i]) # {}
          /\ items[i].is_favorite = (\E k \in CallsFor(items[i]) : add_log[k].is_favorite)
          /\ Cardinality(CallsFor(items[i])) >= 2 => ~items[i].hidden_from_main

\* a pair added as a favorite and then again as a non-favorite, next to
\* another pair: two items after three calls, the first still a favorite
C3_Witness ==
    /\ Len(add_log) = 3
    /\ Len(items) = 2
    /\ add_log[1].is_favorite /\ ~add_log[3].is_favorite
    /\ add_log[1].type = add_log[3].type /\ add_log[1].content = add_log[3].content
    /\ items[1].is_favorite

\* the clipboard handler is about to merge the clipboard value into widget idx
Recapture(idx) ==
    /\ monitor_clipboard
    /\ ClipPair(clipboard) # <<>>
    /\ idx # 0
    /\ idx = FirstMatch(items, ClipPair(clipboard)[1], ClipPair(clipboard)[2])

\* C4: when the clipboard handler adds, with add's default arguments, a pair
\* the store already holds, the merged item (the front of the store) has the
\* useCount the existing item had immediately before the add.
C4_RecaptureKeepsUseCount ==
    [][\A idx \in DOMAIN items :
          (last'.op = "clip" /\ Recapture(idx)) => items'[1].use_count = items[idx].use_count]_vars

\* C5: the primary action adds exactly 1 to the useCount of its item and
\* changes no other item; and for a TEXT item with monitoring on, once the
\* clipboard-change event the action caused has been handled, the store holds
\* the item's pair with the useCount the action left.
C5_OpenCountsOnce ==
    [][/\ last'.op = "open" =>
            /\ Len(items') = Len(items)
            /\ items'[last'.i] = [items[last'.i] EXCEPT !.use_count = @ + 1]
            /\ \A j \in DOMAIN items : j # last'.i => items'[j] = items[j]
       /\ (last.op = "open" /\ last'.op = "clip" /\ monitor_clipboard
             /\ items[last.i].data_type = "text") =>
            \E j \in DOMAIN items' :
               /\ SamePair(items'[j], "text", items[last.i].content)
               /\ items'[j].use_count = items[last.i].use_count]_vars

\* the persisted fields of widget j are the same in the stores a and b
SameFields(a, b, j) == snapshot(a[j]) = snapshot(b[j]) /\ a[j].is_selected = b[j].is_selected

\* C6: after toggleFavorite has been called twice in a row on an item, its
\* isFavorite is what it was before the two calls, its hiddenFromMain is false
\* if it was false before them, and no other field of the item and no other
\* item has changed.
C6_ToggleTwiceRestores ==
    tog.phase = 2 =>
        /\ Len(items) = Len(tog.pre)
        /\ items[tog.i].is_favorite = tog.pre[tog.i].is_favorite
        /\ ~tog.pre[tog.i].hidden_from_main => ~items[tog.i].hidden_from_main
        /\ \A f \in {"data_type", "content", "tags", "date_added", "use_count", "is_selected"} :
              items[tog.i][f] = tog.pre[tog.i][f]
        /\ \A j \in DOMAIN items : j # tog.i => SameFields(items, tog.pre, j)

\* a non-favorite next to another item has been starred and unstarred again
C6_Witness ==
    /\ tog.phase = 2
    /\ Len(items) = 2
    /\ ~tog.pre[tog.i].is_favorite
    /\ ~items[tog.i].is_favorite
    /\ last.op = "toggle"

\* C8: a delete request made in the Favorites tab removes nothing: the store
\* keeps its size and order, the item's isFavorite and hiddenFromMain are both
\* false afterwards, and the undo stack is unchanged.
C8_DeleteInFavoritesDemotes ==
    [][(last'.op = "delete" /\ current_tab = "fav") =>
          /\ Len(items') = Len(items)
          /\ \A j \in DOMAIN items :
                /\ SamePair(items'[j], items[j].data_type, items[j].content)
                /\ j # last'.i => SameFields(items', items, j)
          /\ ~items'[last'.i].is_favorite
          /\ ~items'[last'.i].hidden_from_main
          /\ undo_stack' = undo_stack]_vars

\* the delete button of a favorite was pressed in the Favorites tab with
\* another item in the store
C8_Witness ==
    /\ last.op = "delete"
    /\ current_tab = "fav"
    /\ Len(items) = 2
    /\ last.i \in DOMAIN items
    /\ ~items[last.i].is_favorite
    /\ ~items[last.i].visible

\* C9: a delete request on a favorite made in the All tab only sets
\* hiddenFromMain: the item stays in the store and stays a favorite, it then
\* passes the Favorites tab predicate and fails the All tab predicate, and
\* the undo stack is unchanged.
C9_DeleteFavoriteInAllHides ==
    [][(last'.op = "delete" /\ current_tab = "all" /\ items[last'.i].is_favorite) =>
          /\ Len(items') = Len(items)
          /\ snapshot(items'[last'.i]) = [snapshot(items[last'.i]) EXCEPT !.hidden_from_main = TRUE]
          /\ items'[last'.i].is_favorite
          /\ items'[last'.i].hidden_from_main
          /\ _should_show_item(items'[last'.i], "fav")
          /\ ~_should_show_item(items'[last'.i], "all")
          /\ \A j \in DOMAIN items : j # last'.i => SameFields(items', items, j)
          /\ undo_stack' = undo_stack]_vars

\* the delete button of a favorite was pressed in the All tab with another
\* item in the store
C9_Witness ==
    /\ last.op = "delete"
    /\ current_tab = "all"
    /\ Len(items) = 2
    /\ last.i \in DOMAIN items
    /\ items[last.i].is_favorite
    /\ items[last.i].hidden_from_main
    /\ ~items[last.i].visible

\* widget w carries the tags, dateAdded and useCount of the snapshot d of its pair
Restored(w, d) ==
    /\ SamePair(w, d.type, d.content)
    /\ w.tags = d.tags
    /\ w.date_added = d.date_added
    /\ w.use_count = d.use_count

SelectedBatch(its) == [k \in DOMAIN Selected(its) |-> snapshot(Selected(its)[k])]

\* the pairs of batch b that the store its does not hold
NewPairs(its, b) ==
    {<<b[k].type, b[k].content>> : k \in {n \in DOMAIN b : Count(its, b[n].type, b[n].content) = 0}}

\* C10: the undo stack is a LIFO stack of batches. A permanent single delete
\* pushes one batch holding the removed item's snapshot; a bulk delete pushes
\* one batch holding the snapshots of all the items it removed; an undo pops
\* the most recently pushed remaining batch and re-adds exactly its items;
\* undo on an empty stack changes neither the store nor the stack; nothing
\* else touches the stack.
C10_UndoStackIsLifo ==
    [][/\ (last'.op = "delete" /\ Permanent(last'.i)) =>
            /\ undo_stack' = Append(undo_stack, <<snapshot(items[last'.i])>>)
            /\ save_favorites(items') = save_favorites(RemoveAt(items, last'.i))
       /\ (last'.op = "delete" /\ ~Permanent(last'.i)) => undo_stack' = undo_stack
       /\ last'.op = "bulk" =>
            /\ undo_stack' = Append(undo_stack, SelectedBatch(items))
            /\ save_favorites(items') = save_favorites(SelectSeq(items, LAMBDA w : ~w.is_selected))
       /\ (last'.op = "undo" /\ undo_stack # <<>>) =>
            LET b == undo_stack[Len(undo_stack)]
            IN /\ undo_stack' = SubSeq(undo_stack, 1, Len(undo_stack) - 1)
               /\ \A k \in DOMAIN b :
                     /\ Count(items', b[k].type, b[k].content)
                           = Max(1, Count(items, b[k].type, b[k].content))
                     /\ (\A n \in DOMAIN b : n > k => ~(b[n].type = b[k].type /\ b[n].content = b[k].content))
                           => \E j \in DOMAIN items' : Restored(items'[j], b[k])
               /\ \A j \in DOMAIN items :
                     (\A k \in DOMAIN b : ~SamePair(items[j], b[k].type, b[k].content)) =>
                        \E n \in DOMAIN items' : snapshot(items'[n]) = snapshot(items[j])
               /\ Len(items') = Len(items) + Cardinality(NewPairs(items, b))
       /\ (last'.op = "undo" /\ undo_stack = <<>>) =>
            items' = items /\ undo_stack' = undo_stack
       /\ last'.op \in {"import", "edit", "select_mode", "select", "bulk_no"} =>
            undo_stack' = undo_stack]_vars

\* undo found two batches and popped the later one: the older batch, a bulk
\* delete of two items, is still on the stack and one item is back
C10_Witness ==
    /\ last.op = "undo"
    /\ last.i = 2
    /\ Len(undo_stack) = 1
    /\ Len(undo_stack[1]) = 2
    /\ Len(items) = 1

\* the favorites of the store its, in store order, as clear_shelf leaves them
HiddenFavorites(its) ==
    LET favs == SelectSeq(its, LAMBDA w : w.is_favorite)
    IN [k \in DOMAIN favs |-> [snapshot(favs[k]) EXCEPT !.hidden_from_main = TRUE]]

\* C11: a confirmed clearAll leaves exactly the items that were favorites, in
\* their previous relative order and each hidden from the main view, removes
\* every non-favorite and leaves the undo stack alone; a declined clearAll
\* changes neither the store nor the undo stack nor the durable snapshot.
C11_ClearKeepsFavorites ==
    [][/\ last'.op = "clear" =>
            /\ save_favorites(items').data = HiddenFavorites(items)
            /\ \A j \in DOMAIN items' : items'[j].is_favorite /\ items'[j].hidden_from_main
            /\ undo_stack' = undo_stack
       /\ last'.op = "clear_no" =>
            /\ items' = items
            /\ undo_stack' = undo_stack
            /\ favorites_file' = favorites_file]_vars

\* the shelf was cleared after a delete had been recorded: one favorite is
\* left, hidden from the main view and saved, and the undo stack still holds
\* the delete
C11_Witness ==
    /\ last.op = "clear"
    /\ Len(items) = 1
    /\ items[1].is_favorite /\ items[1].hidden_from_main
    /\ ~items[1].visible
    /\ undo_stack # <<>>
    /\ favorites_file = save_favorites(items)

\* the handlers that change the item store
Mutations == {"import", "clip", "toggle", "sort", "sort_dir", "reorder"}

\* C12: after every operation that mutates the item store the durable items
\* snapshot equals the store: the same records in the same order (a missing
\* file holds no records).
C12_SnapshotEqualsStore ==
    last.op \in Mutations => favorites_file.data = save_favorites(items).data

\* a favorite hidden from the main view is in the store and not in favorites.json
Unsaved ==
    \E i \in DOMAIN items :
       /\ items[i].is_favorite /\ items[i].hidden_from_main
       /\ \A k \in DOMAIN favorites_file.data : favorites_file.data[k] # snapshot(items[i])

\* C13: an item added as a hidden favorite is eventually in the durable items
\* snapshot, with no further action of the user.
C13_HiddenFavoriteEventuallySaved ==
    [](Unsaved => <>(~Unsaved))

\* C14: whatever file operation of a save fails or is cut short, the path of
\* the items snapshot and the path of the history snapshot each hold afterwards
\* either what they held before or the complete new contents.
C14_WriteLeavesOldOrNew ==
    [][/\ favorites_file' \in {favorites_file, save_favorites(items')}
       /\ history_file' \in {history_file, [exists |-> TRUE, data |-> clipboard_history']}]_vars

\* the store holds no two widgets with the same (kind, content) pair
NoDuplicates(its) ==
    \A i, j \in DOMAIN its :
        its[i].data_type = its[j].data_type /\ its[i].content = its[j].content => i = j

\* C15: save followed by load is a round trip: when the program quits (the
\* store is saved) and is launched again, a store without duplicate pairs is
\* rebuilt as the same sequence of items with the same kind, content,
\* is_favorite, hidden_from_main, tags, date_added and use_count
C15_SaveLoadRoundTrip ==
    [][(last.op = "quit" /\ last'.op = "start" /\ NoDuplicates(items))
          => save_favorites(items').data = save_favorites(items).data]_vars

\* a two-item store holding a hidden favorite with a use count has been
\* rebuilt from the file the quit wrote
C15_Witness ==
    /\ last = [op |-> "start", i |-> 1]
    /\ Len(items) = 2
    /\ \E i \in DOMAIN items :
          items[i].is_favorite /\ items[i].hidden_from_main /\ items[i].use_count = 1
    /\ items[1].date_added # items[2].date_added

\* json.load or the loop of load_favorites cannot read the file: it is not
\* JSON, or a record lacks 'type' or 'content', or names an unknown type
Unparsable(f) ==
    \/ ~is_json(f)
    \/ \E k \in DOMAIN f.data :
          \/ f.data[k].type = Missing
          \/ f.data[k].content = Missing
          \/ f.data[k].type \notin ItemType

\* C16: a launch that finds an items file it cannot parse (not JSON, or a
\* record anywhere lacking a required field or of unknown type) ends with an
\* empty store, and a launch that finds a history file that is not JSON ends
\* with an empty history log
C16_UnparsableLoadsNothing ==
    [][last'.op = "start" =>
          /\ (favorites_file.exists /\ Unparsable(favorites_file) => items' = <<>>)
          /\ (history_file.exists /\ ~is_json(history_file) => clipboard_history' = <<>>)]_vars

\* C17: the history log never holds more than max_history entries
C17_HistoryWithinSize == Len(clipboard_history) <= max_history

\* the entry _add_to_history builds for the mime data on the clipboard
Recorded(e, mime) == e.type = ClipPair(mime)[1] /\ e.content = ClipPair(mime)[2]

C19_ZeroSizeRecordsNothing ==
    [][(last'.op = "clip" /\ max_history = 0)
       => /\ clipboard_history' = clipboard_history
          /\ history_file' = history_file
          /\ (monitor_clipboard /\ ClipPair(clipboard) # <<>>
                => /\ Len(items') > 0
                   /\ <<items'[1].data_type, items'[1].content>> = ClipPair(clipboard))]_vars

\* with the size at 0 an event has added its content to the store while the
\* log stayed empty and history.json kept the entry written earlier
C19_Witness ==
    /\ last.op = "clip"
    /\ max_history = 0
    /\ monitor_clipboard
    /\ ClipPair(clipboard) # <<>>
    /\ <<items[1].data_type, items[1].content>> = ClipPair(clipboard)
    /\ clipboard_history = <<>>
    /\ history_file.exists
    /\ \A k \in DOMAIN history_file.data :
          history_file.data[k].content # items[1].content

\* C20: when the settings dialog lowers the history size from N to M,
\* 0 < M < N, and the log holds more than M entries, the log is left with the
\* M entries recorded last, in the order they were recorded
C20_ShrinkKeepsNewest ==
    [][(last'.op = "settings" /\ 0 < max_history' /\ max_history' < max_history
          /\ Len(clipboard_history) > max_history')
       => clipboard_history' =
             SubSeq(clipboard_history, Len(clipboard_history) - max_history' + 1,
                    Len(clipboard_history))]_vars

\* C21: with the All or the Favorites tab active, a widget is shown exactly
\* when it passes the tab predicate, the type filter and the search query the
\* window holds, after every operation, an edit of content or tags included
C21_ShownIffMatches ==
    current_tab \in {"all", "fav"} =>
        \A i \in DOMAIN items :
            items[i].visible = shown(items[i], current_tab, current_filter, search_query)

\* no two widgets of the store have the same use_count
DistinctUseCounts(its) ==
    \A i, j \in DOMAIN its : its[i].use_count = its[j].use_count => i = j

\* b holds the widgets of a, each as often as a holds it
Permutation(a, b) ==
    /\ Len(a) = Len(b)
    /\ \A i \in DOMAIN a :
          Cardinality({j \in DOMAIN a : a[j] = a[i]}) =
          Cardinality({j \in DOMAIN b : b[j] = a[i]})

Reverse(a) == [k \in DOMAIN a |-> a[Len(a) + 1 - k]]

\* C22: on a store with pairwise distinct use counts, choosing the sort key
\* `used` in the default direction orders the widgets by falling use count,
\* and toggling the direction next leaves exactly the reverse of that order;
\* both steps permute the store and change no widget
C22_UsedSortToggleReverses ==
    [][/\ (last'.op = "sort" /\ current_sort' = "used" /\ ~sort_ascending
             /\ DistinctUseCounts(items))
          => /\ Permutation(items, items')
             /\ \A i, j \in DOMAIN items' :
                   i < j => items'[i].use_count > items'[j].use_count
       /\ (last.op = "sort" /\ last'.op = "sort_dir" /\ current_sort = "used"
             /\ ~sort_ascending /\ DistinctUseCounts(items))
          => items' = Reverse(items)]_vars

\* the direction was toggled right after a sort by `used` and has left at
\* least two widgets in rising order of use count
C22_Witness ==
    /\ last = [op |-> "sort_dir", i |-> 1]
    /\ current_sort = "used"
    /\ sort_ascending
    /\ Len(items) >= 2
    /\ \A i, j \in DOMAIN items : i < j => items[i].use_count < items[j].use_count

\* C23: however two launches interleave, at most one process at a time has
\* created the shelf window, and a process that finds a running instance
\* leaves a show signal and exits without a window
C23_OneWindow ==
    Cardinality({p \in Procs : pc[p] = "run"}) <= 1

\* C24: the end of a title fetch and the delivery of its (url, title) signal
\* change nothing of the store (membership, order, kind, content, flags,
\* tags, date_added, use_count) and nothing of favorites.json, whatever has
\* happened to the item meanwhile; the handler changes only the label of the
\* widget that receives the signal, and only if its content is the url
C24_TitleLeavesStore ==
    [][last'.op \in {"fetched", "title", "discarded"} =>
          /\ save_favorites(items').data = save_favorites(items).data
          /\ favorites_file' = favorites_file
          /\ undo_stack' = undo_stack
          /\ \A j \in DOMAIN items :
                \/ items'[j] = items[j]
                \/ /\ last'.op = "title" /\ j = last'.i
                   /\ \E msg \in title_queue : items[j].content = msg[1]
                   /\ items'[j] = [items[j] EXCEPT !.text_label = items'[j].text_label]]_vars

\* a title has been delivered to a url item whose tags have been edited,
\* in a store of two items: it shows the title, its content is still the url
C24_Witness ==
    /\ last.op = "title"
    /\ items[last.i].text_label = "T"
    /\ items[last.i].content = "http://u"
    /\ items[last.i].tags = <<"t">>
    /\ Len(items) = 2

\* the store without the widget add_item's deduplication removes for the pair
WithoutPair(its, pair) ==
    IF FirstMatch(its, pair[1], pair[2]) = 0 THEN its
    ELSE RemoveAt(its, FirstMatch(its, pair[1], pair[2]))

\* C25: after an add, of a new pair or of a pair the store holds already, the
\* item for the pair is the first of the store and the other items follow in
\* the order they had, whatever sort key and direction are chosen
C25_AddPutsFirst ==
    [][(last'.op = "clip" /\ monitor_clipboard /\ ClipPair(clipboard) # <<>>)
       => /\ Len(items') > 0
          /\ <<items'[1].data_type, items'[1].content>> = ClipPair(clipboard)
          /\ Tail(items') = WithoutPair(items, ClipPair(clipboard))]_vars

\* a capture has put its item first of two, before an item with a later
\* date, while the sort chosen (oldest, direction toggled) orders later dates
\* first
C25_Witness ==
    /\ last.op = "clip"
    /\ Len(items) = 2
    /\ <<items[1].data_type, items[1].content>> = ClipPair(clipboard)
    /\ current_sort = "oldest"
    /\ sort_ascending
    /\ items[1].date_added < items[2].date_added

\* C26: an add made while the Favorites tab is active leaves the All tab
\* active when the item it produces (after a merge) is not a favorite and the
\* Favorites tab when that item is a favorite; an add made in another tab
\* leaves the tab as it is
C26_AddSwitchesTabForNonFavorite ==
    [][(last'.op = "clip" /\ monitor_clipboard /\ ClipPair(clipboard) # <<>>)
       => current_tab' = IF current_tab = "fav" /\ ~items'[1].is_favorite
                         THEN "all" ELSE current_tab]_vars

\* the store with widget i moved to just before widget j, or to the end
\* when j is 0
MovedBefore(its, i, j) ==
    LET rest == RemoveAt(its, i)
        k == IF j = 0 THEN Len(rest) + 1 ELSE IF j < i THEN j ELSE j - 1
    IN IF j = i THEN its
       ELSE SubSeq(rest, 1, k - 1) \o <<its[i]>> \o SubSeq(rest, k, Len(rest))

\* C27: a drag-reorder leaves the dragged item immediately before the first
\* item whose midpoint lies below the drop position, or last when there is
\* none, moved up or down; the other items keep their order, no item is
\* added, removed or changed, and favorites.json holds the new order
C27_DropBeforeTarget ==
    [][last'.op = "reorder" =>
          /\ items' = MovedBefore(items, last'.i, last'.j)
          /\ favorites_file'.data = save_favorites(items').data]_vars

\* C28: an import that fails at a record without type or content leaves the
\* store and favorites.json exactly as they were before the import began
C28_FailedImportAddsNothing ==
    [][last' = [op |-> "import", i |-> 1] =>
          /\ items' = items
          /\ favorites_file' = favorites_file]_vars

\* C29: no delete operation (single delete, bulk delete of the selected items,
\* clear shelf) removes from the store an item that is a favorite when the
\* operation starts
C29_DeleteKeepsFavorites ==
    [][last'.op \in {"delete", "bulk", "clear"} =>
          \A i \in DOMAIN items :
             items[i].is_favorite =>
                \E k \in DOMAIN items' :
                   /\ items'[k].data_type = items[i].data_type
                   /\ items'[k].content = items[i].content]_vars

\* a snapshot load_favorites reads to its end
ValidSnapshot(f) == f.exists /\ ~Unparsable(f)

\* every record of the file f is a record of the file g
RecordsKept(f, g) ==
    /\ g.exists
    /\ is_json(g)
    /\ \A k \in DOMAIN f.data :
          \E m \in DOMAIN g.data :
             /\ g.data[m].type = f.data[k].type
             /\ g.data[m].content = f.data[k].content

\* C30: when the program starts on a valid favorites.json, after every record
\* load_favorites adds and when the load has finished, favorites.json still
\* holds every record it held before the start
C30_LoadKeepsSnapshot ==
    [][(last'.op = "start" /\ ValidSnapshot(favorites_file)) =>
          /\ \A j \in 0..Len(favorites_file.data), now \in Times :
                RecordsKept(favorites_file,
                            loading(settings_file, history_file, favorites_file,
                                    j, now).favorites_file)
          /\ RecordsKept(favorites_file, favorites_file')]_vars
====
